---- MODULE Spec2Model ----
(***************************************************************************)
(* A model of the local execution runners of app/streamlit_app.py          *)
(* (run_python, run_cpp, run_java, run_code) and of the Streamlit script   *)
(* that calls them.                                                        *)
(*                                                                         *)
(* Source text is a sequence of tokens.  Streams (stdout, stderr) are      *)
(* sequences of strings: <<>> is the empty string, <<"Timeout">> the       *)
(* literal "Timeout", and what a subprocess prints is tagged with the tool *)
(* and the text the tool actually read from the file system.               *)
(* Time is counted in clock ticks of time.perf_counter().                  *)
(***************************************************************************)
EXTENDS Integers, Sequences, FiniteSets, TLC

VARIABLES
    fs,     \* the temporary-directory namespace: existing directory -> set of <<file name, content>>
    th,     \* per thread: the locals of its run_code invocation
    ui      \* the Streamlit session: session_state, widget values, script position

vars == <<fs, th, ui>>

----------------------------------------------------------------------------
(* Bounds *)

MaxTimeout == 2          \* largest timeout_s a caller passes
MaxCompileTicks == 3     \* the clock of a phase without deadline stops here
MaxChunks == 2           \* Java sources are built from at most this many chunks

(* Program constants *)

MinTimeout == 1          \* st.number_input("Timeout (seconds)", 1, 250, 10)

\* the script thread of the Streamlit session and one more caller
Threads == {"script", "other"}
UiThread == "script"
\* names mkdtemp may draw: one more than there are threads
TmpNames == {"tmpA", "tmpB", "tmpC"}
NoDir == ""
Timeouts == MinTimeout .. MaxTimeout

LANGS == {"Python", "C++", "Java"}

(* EXAMPLES, each cut after the tokens that matter to the runners.  *)
EXAMPLES ==
    [l \in LANGS |->
        CASE l = "Python" -> <<"for", " ", "i">>
          [] l = "C++"    -> <<"#", "include">>
          [] l = "Java"   -> <<"public", " ", "class", " ", "Main", "{">>]

----------------------------------------------------------------------------
(* re.search for the pattern  public \s+ class \s+ ( [A-Za-z_] \w* )       *)
(* A token is a run of characters of one class: "public" and "class" are   *)
(* the two literals of the pattern, and are word characters themselves.    *)

SpaceToks == {" ", "\n"}
IdentToks == {"public", "class", "Main", "Foo", "Bar", "_", "for", "i", "include"}
DigitToks == {"9"}
WordToks == IdentToks \cup DigitToks

RECURSIVE SkipSpace(_, _)
\* \s+ is greedy: the index after the whitespace run that starts at j
SkipSpace(code, j) ==
    IF j <= Len(code) /\ code[j] \in SpaceToks THEN SkipSpace(code, j + 1) ELSE j

RECURSIVE WordRun(_, _)
\* \w* is greedy: the index after the run of word characters that starts at j
WordRun(code, j) ==
    IF j <= Len(code) /\ code[j] \in WordToks THEN WordRun(code, j + 1) ELSE j

\* The pattern matched with its first character at i: <<>> when it does not
\* match, <<group(1)>> when it does.
MatchAt(code, i) ==
    IF ~(i <= Len(code) /\ code[i] = "public") THEN <<>>
    ELSE LET j == SkipSpace(code, i + 1) IN
         IF j = i + 1 \/ ~(j <= Len(code) /\ code[j] = "class") THEN <<>>
         ELSE LET k == SkipSpace(code, j + 1) IN
              IF k = j + 1 \/ ~(k <= Len(code) /\ code[k] \in IdentToks) THEN <<>>
              ELSE <<SubSeq(code, k, WordRun(code, k + 1) - 1)>>

RECURSIVE SearchFrom(_, _)
\* re.search scans the start positions left to right; the first match wins
SearchFrom(code, i) ==
    IF i > Len(code) THEN <<>>
    ELSE IF MatchAt(code, i) # <<>> THEN MatchAt(code, i)
    ELSE SearchFrom(code, i + 1)

ClassNameFirstOnly(code) ==
    IF MatchAt(code, 1) # <<>> THEN MatchAt(code, 1)[1] ELSE <<"Main">>

\* cname = m.group(1) if m else "Main"
ClassName(code) ==
    IF SearchFrom(code, 1) # <<>> THEN SearchFrom(code, 1)[1] ELSE <<"Main">>

----------------------------------------------------------------------------
(* The file system under the temporary directories *)

Missing == <<"ENOENT">>

HasFile(f, d, name) == d \in DOMAIN f /\ \E x \in f[d] : x[1] = name

ReadFile(f, d, name) ==
    IF HasFile(f, d, name) THEN (CHOOSE x \in f[d] : x[1] = name)[2] ELSE Missing

\* Path.write_text: creates or replaces the file
WriteFile(f, d, name, content) ==
    IF d \in DOMAIN f
    THEN [f EXCEPT ![d] = {x \in @ : x[1] # name} \cup {<<name, content>>}]
    ELSE f

MkdtempShared(f) == {"tmpA"}

\* tempfile.mkdtemp(): a directory name that does not exist yet
Mkdtemp(f) == TmpNames \ DOMAIN f

MakeDir(f, d) == [x \in DOMAIN f \cup {d} |-> IF x = d THEN {} ELSE f[x]]

ExitWithLeakOnRaise(f, d, how) ==
    IF how = "raise" THEN f ELSE [x \in DOMAIN f \ {d} |-> f[x]]

\* TemporaryDirectory.__exit__: the directory and its files are removed,
\* whether the block is left by return or by an exception
ExitWith(f, d, how) == [x \in DOMAIN f \ {d} |-> f[x]]

----------------------------------------------------------------------------
(* Locals of one run_code invocation *)

Idle ==
    [pc |-> "idle", lang |-> "", code |-> <<>>, timeout_s |-> 0,
     absent |-> {}, cname |-> <<>>, td |-> NoDir, el |-> 0, ct |-> 0,
     compArgv |-> <<>>, runArgv |-> <<>>, comp |-> <<>>, run |-> <<>>,
     did |-> {}, result |-> <<>>, exc |-> ""]

Ended(i) == th[i].pc \in {"idle", "returned", "raised"}
InWith(i) == th[i].pc \in {"compile", "run"}

Result(ok, out, err, time_s, compile_time_s) ==
    [ok |-> ok, stdout |-> out, stderr |-> err,
     time_s |-> time_s, compile_time_s |-> compile_time_s]

\* the frame is left: what stays is the return value or the exception, and
\* the record of what the call did (did, absent, cname, comp, run, ct)
Leave(t) == [t EXCEPT !.td = NoDir, !.el = 0, !.compArgv = <<>>, !.runArgv = <<>>]
Return(t, r) == [Leave(t) EXCEPT !.pc = "returned", !.result = <<r>>]
Raise(t, e) == [Leave(t) EXCEPT !.pc = "raised", !.exc = e]

Tools == {"g++", "javac", "java"}

\* the PATH a call may find
PathEnvs == SUBSET Tools

\* exit statuses of a subprocess: zero and non-zero
ExitCodes == {0, 1}
FailCodes == {1}

DidInterpreted == {"mkdtemp", "write", "run"}
DidCompiled == {"mkdtemp", "write", "compile"}

RequiredJavacOnly(lang) ==
    CASE lang = "C++" -> {"g++"}
      [] lang = "Java" -> {"javac"}
      [] OTHER -> {}

\* _which("g++"); _which("javac") and _which("java")
Required(lang) ==
    CASE lang = "C++" -> {"g++"}
      [] lang = "Java" -> {"javac", "java"}
      [] OTHER -> {}

\* what a subprocess of `tool` prints when it has read `src`
Stdout(tool, src) == <<tool, "stdout:">> \o src
Stderr(tool, src) == <<tool, "stderr:">> \o src

Completed(rc, tool, src) ==
    [returncode |-> rc, stdout |-> Stdout(tool, src), stderr |-> Stderr(tool, src)]

SrcName(t) ==
    CASE t.lang = "Python" -> <<"main.py">>
      [] t.lang = "C++" -> <<"main.cpp">>
      [] t.lang = "Java" -> t.cname \o <<".java">>

\* the program the run phase starts
RunTool(t) ==
    CASE t.lang = "Python" -> "python"
      [] t.lang = "C++" -> "main"
      [] t.lang = "Java" -> "java"

\* the file the run phase executes (for Java the class file javac writes for
\* the class the launcher is asked for)
ExeName(t) ==
    CASE t.lang = "Python" -> <<"main.py">>
      [] t.lang = "C++" -> <<"main">>
      [] t.lang = "Java" -> t.cname \o <<".class">>

CompileArgv(t, d) ==
    CASE t.lang = "C++" ->
            <<"g++", "-O2", "-std=c++17", <<d, <<"main.cpp">>>>, "-o", <<d, <<"main">>>>>>
      [] t.lang = "Java" -> <<"javac", <<d, t.cname \o <<".java">>>>>>

RunArgv(t) ==
    CASE t.lang = "Python" -> <<"python", "-u", <<t.td, <<"main.py">>>>>>
      [] t.lang = "C++" -> <<<<t.td, <<"main">>>>>>
      [] t.lang = "Java" -> <<"java", "-cp", t.td, t.cname>>

NoDeadline == -1

CompileDeadlineAsRun(t) == t.timeout_s

\* subprocess.run(["g++", ...]) and subprocess.run(["javac", ...]) pass no timeout
CompileDeadline(t) == NoDeadline

\* subprocess.run(..., timeout=timeout_s) in the run phase
RunDeadline(t) == t.timeout_s

Deadline(t) == IF t.pc = "compile" THEN CompileDeadline(t) ELSE RunDeadline(t)

----------------------------------------------------------------------------
(* run_code and the three runners *)

\* a caller invokes run_code(lang, code, timeout_s) on thread i
Invoke(i, lang, code, timeout_s) ==
    th' = [th EXCEPT ![i] =
              [Idle EXCEPT !.pc = "called", !.lang = lang, !.code = code,
                           !.timeout_s = timeout_s]]

Call(i, langs, codes, timeouts) ==
    /\ Ended(i)
    /\ \E lang \in langs, code \in codes, timeout_s \in timeouts :
          Invoke(i, lang, code, timeout_s)
    /\ UNCHANGED <<fs, ui>>

MissingMessage(lang) ==
    IF lang = "C++" THEN <<"g++ not found on PATH.">>
    ELSE <<"javac/java not found on PATH.">>

\* run_code's dispatch, the runner's toolchain check and, for Java, the
\* class-name extraction: everything before the `with` block.
RunCode(i) ==
    /\ th[i].pc = "called"
    /\ \E path \in PathEnvs :
          LET t == th[i]
              \* what shutil.which does not resolve, when the runner asks
              absent == IF t.lang \in {"C++", "Java"} THEN Tools \ path ELSE {}
          IN  th' = [th EXCEPT ![i] =
                IF t.lang \notin LANGS
                THEN Return(t, Result(FALSE, <<>>, <<"Unsupported: ", t.lang>>, 0, 0))
                ELSE IF ~(Required(t.lang) \subseteq path)
                THEN Return([t EXCEPT !.absent = absent],
                            Result(FALSE, <<>>, MissingMessage(t.lang), 0, 0))
                ELSE [t EXCEPT !.pc = "enter", !.absent = absent,
                               !.cname = IF t.lang = "Java" THEN ClassName(t.code)
                                         ELSE <<>>]]
    /\ UNCHANGED <<fs, ui>>

\* with tempfile.TemporaryDirectory() as td: write the source, start the
\* clock and spawn the first subprocess.
EnterWith(i) ==
    /\ th[i].pc = "enter"
    /\ \E d \in Mkdtemp(fs) :
          LET t == th[i] IN
          /\ fs' = WriteFile(MakeDir(fs, d), d, SrcName(t), t.code)
          /\ th' = [th EXCEPT ![i] =
                IF t.lang = "Python"
                THEN [t EXCEPT !.pc = "run", !.td = d, !.el = 0, !.absent = {},
                               !.did = DidInterpreted,
                               !.runArgv = RunArgv([t EXCEPT !.td = d])]
                ELSE [t EXCEPT !.pc = "compile", !.td = d, !.el = 0, !.absent = {},
                               !.did = DidCompiled,
                               !.compArgv = CompileArgv(t, d)]]
    /\ UNCHANGED ui

\* time passes while the subprocess runs
Tick(i) ==
    /\ InWith(i)
    /\ th[i].el < (IF Deadline(th[i]) = NoDeadline THEN MaxCompileTicks ELSE Deadline(th[i]))
    /\ th' = [th EXCEPT ![i].el = @ + 1]
    /\ UNCHANGED <<fs, ui>>

CompileFailedRunsAnyway(t, comp) ==
    [t EXCEPT !.pc = "run", !.comp = <<comp>>, !.ct = t.el, !.el = 0,
              !.did = @ \cup {"run"}, !.runArgv = RunArgv(t)]

\* if comp.returncode != 0: return {...}
CompileFailed(t, comp) ==
    Return([t EXCEPT !.comp = <<comp>>, !.ct = t.el],
           Result(FALSE, comp.stdout, comp.stderr, 0, t.el))

\* the compiler exits: ct is measured, and either the compile failure is
\* returned or the run phase starts
CompileExit(i) ==
    /\ th[i].pc = "compile"
    /\ LET t == th[i]
           src == ReadFile(fs, t.td, t.compArgv[Len(t.compArgv) - (IF t.lang = "C++" THEN 2 ELSE 0)][2])
       IN  \E rc \in IF src = Missing THEN FailCodes ELSE ExitCodes :
             LET comp == Completed(rc, t.compArgv[1], src) IN
             IF rc # 0
             THEN /\ th' = [th EXCEPT ![i] = CompileFailed(t, comp)]
                  /\ fs' = IF th'[i].pc = "run" THEN fs ELSE ExitWith(fs, t.td, "return")
             ELSE /\ th' = [th EXCEPT ![i] =
                        [t EXCEPT !.pc = "run", !.comp = <<comp>>, !.ct = t.el,
                                  !.el = 0, !.did = @ \cup {"run"},
                                  !.runArgv = RunArgv(t)]]
                  /\ fs' = WriteFile(fs, t.td, ExeName(t), src)
    /\ UNCHANGED ui

RunCompletedOkAlways(t, run) ==
    Return([t EXCEPT !.run = <<run>>],
           Result(TRUE, run.stdout, run.stderr, t.el, t.ct))

\* return {"ok": p.returncode == 0, ...}
RunCompleted(t, run) ==
    Return([t EXCEPT !.run = <<run>>],
           Result(run.returncode = 0, run.stdout, run.stderr, t.el, t.ct))

\* the executed program exits before the deadline
RunExit(i) ==
    /\ th[i].pc = "run"
    /\ LET t == th[i]
           src == ReadFile(fs, t.td, ExeName(t))
       IN  \E rc \in IF src = Missing THEN FailCodes ELSE ExitCodes :
             /\ th' = [th EXCEPT ![i] = RunCompleted(t, Completed(rc, RunTool(t), src))]
             /\ fs' = ExitWith(fs, t.td, "return")
    /\ UNCHANGED ui

\* subprocess.TimeoutExpired: run_python catches it, run_cpp and run_java
\* have no handler
TimedOut(t) ==
    IF t.lang = "Python"
    THEN Return(t, Result(FALSE, <<>>, <<"Timeout">>, t.timeout_s, 0))
    ELSE Raise(t, "TimeoutExpired")

\* the deadline of the subprocess passes: it is killed and
\* subprocess.TimeoutExpired is raised in the runner
Timeout(i) ==
    /\ InWith(i)
    /\ Deadline(th[i]) # NoDeadline
    /\ th[i].el >= Deadline(th[i])
    /\ th' = [th EXCEPT ![i] = TimedOut([th[i] EXCEPT !.did = @ \cup {"timeout"}])]
    /\ fs' = ExitWith(fs, th[i].td, IF th'[i].pc = "raised" THEN "raise" ELSE "return")
    /\ UNCHANGED ui

Step(i) ==
    \/ RunCode(i)
    \/ EnterWith(i)
    \/ Tick(i)
    \/ CompileExit(i)
    \/ RunExit(i)
    \/ Timeout(i)

----------------------------------------------------------------------------
(* Callers that use run_code directly, possibly from several threads *)

CallerLangs == LANGS \cup {"Go"}
Programs == {EXAMPLES["Python"], EXAMPLES["Java"]}

Buttons ==
    {"none", "load_example_src", "clear_src", "load_example_tgt", "clear_tgt",
     "convert", "run_src", "run_tgt", "run_both"}

UiInit ==
    [pc |-> "idle", src_code |-> EXAMPLES["Python"], tgt_code |-> <<>>,
     enable_exec |-> FALSE, button |-> "none", src_lang |-> "Python",
     tgt_lang |-> "C++", timeout_s |-> MinTimeout, shown |-> {"info"}]

Init ==
    /\ fs = <<>>
    /\ th = [i \in Threads |-> Idle]
    /\ \E t \in Timeouts : ui = [UiInit EXCEPT !.timeout_s = t]

\* one caller, one call after the other
DirectCall(i) == Call(i, CallerLangs, Programs, Timeouts)

Next == DirectCall(UiThread) \/ Step(UiThread)

Spec == Init /\ [][Next]_vars

\* callers on two threads that share the temporary-directory namespace
ConcPrograms == {<<"Bar">>, <<"public", " ", "class", " ", "Foo", "_", "9">>}
ConcTimeouts == {MinTimeout}

ConcCall(i) == Call(i, LANGS, ConcPrograms, ConcTimeouts)

NextConc == \E i \in Threads : ConcCall(i) \/ Step(i)

SpecConc == Init /\ [][NextConc]_vars

----------------------------------------------------------------------------
(* run_java on sources built from chunks around the public-class pattern *)

Chunks ==
    << <<"public", " ", "class", " ", "Foo">>,
       <<"public", "\n", " ", "class", "\n", "_", "9", "Bar">>,
       <<"public", "class", " ", "Foo">>,
       <<"public", " ", "class", " ", "9">>,
       <<" ">>, <<"{">> >>

RECURSIVE Sources(_)
Sources(n) ==
    IF n = 0 THEN {<<>>}
    ELSE LET shorter == Sources(n - 1)
         IN  shorter \cup {s \o Chunks[k] : s \in shorter, k \in 1 .. Len(Chunks)}

JavaSources == Sources(MaxChunks)

JavaOnly == {"Java"}

JavaCall == Call(UiThread, JavaOnly, JavaSources, ConcTimeouts)

NextJava == JavaCall \/ Step(UiThread)

SpecJava == Init /\ [][NextJava]_vars

----------------------------------------------------------------------------
(* The Streamlit script: one run per user interaction *)

UiTexts == {<<>>} \cup Programs

\* what extract_code(convert_code(...)) gives: <<code>>, or <<>> when the
\* call raises
ConvOutcomes == {<<>>} \cup {<<c>> : c \in UiTexts}
NoConv == {<<>>}

ExecAlways(u) == TRUE

\* if not enable_exec: st.info(...) else: ...
ExecEnabled(u) == u.enable_exec

\* if run_tgt or run_both: tcode = ...; if not tcode: st.warning(...) else: run
TgtRuns(u) == u.button \in {"run_tgt", "run_both"} /\ u.tgt_code # <<>>

\* the target part of the Run & Measure block, reached when the source part
\* is over (or was skipped)
TgtPart(u) ==
    IF TgtRuns(u)
    THEN /\ Invoke(UiThread, u.tgt_lang, u.tgt_code, u.timeout_s)
         /\ ui' = [u EXCEPT !.pc = "tgt"]
    ELSE /\ th' = [th EXCEPT ![UiThread] = Idle]
         /\ ui' = [u EXCEPT !.pc = "idle",
                             !.shown = IF u.button \in {"run_tgt", "run_both"}
                                       THEN @ \cup {"warning"} ELSE @]

\* A script run follows one interaction: a click on one button, or a new
\* value of one widget.  The run that st.rerun() asks for has no interaction:
\* no button is pressed; the editor may then show its old text or the new
\* session value.
Interactions ==
    LET w == [button |-> "none", enable_exec |-> ui.enable_exec,
              src_lang |-> ui.src_lang, tgt_lang |-> ui.tgt_lang,
              timeout_s |-> ui.timeout_s, text |-> ui.src_code]
        texts == {[w EXCEPT !.text = x] : x \in UiTexts}
    IN  IF ui.pc = "rerun" THEN texts
        ELSE {[w EXCEPT !.button = b] : b \in Buttons \ {"none"}}
             \cup {[w EXCEPT !.enable_exec = ~@]}
             \cup {[w EXCEPT !.src_lang = l] : l \in LANGS \ {w.src_lang}}
             \cup {[w EXCEPT !.tgt_lang = l] : l \in LANGS \ {w.tgt_lang}}
             \cup {[w EXCEPT !.timeout_s = t] : t \in Timeouts \ {w.timeout_s}}
             \cup (texts \ {w})

\* The script from its top to the first run_code call, or to its end.
\* session_state.src_code is what the editor holds (the default set when it
\* is empty is overwritten by the editor's text a few lines later).
UiRerun ==
    /\ ui.pc \in {"idle", "rerun"}
    /\ Ended(UiThread)
    /\ \E w \in Interactions :
        \E conv \in IF w.button = "convert" THEN ConvOutcomes ELSE NoConv :
          /\ LET b == w.button
                 sl == w.src_lang
                 tl == w.tgt_lang
                 t == w.timeout_s
                 u0 == [ui EXCEPT !.enable_exec = w.enable_exec, !.button = b,
                                   !.src_lang = sl, !.tgt_lang = tl, !.timeout_s = t,
                                   !.shown = {}, !.src_code = w.text]
             IN  CASE b = "load_example_src" ->
                        /\ ui' = [u0 EXCEPT !.pc = "rerun", !.src_code = EXAMPLES[sl]]
                        /\ th' = [th EXCEPT ![UiThread] = Idle]
                   [] b = "clear_src" ->
                        /\ ui' = [u0 EXCEPT !.pc = "rerun", !.src_code = <<>>]
                        /\ th' = [th EXCEPT ![UiThread] = Idle]
                   [] b = "load_example_tgt" ->
                        /\ ui' = [u0 EXCEPT !.pc = "rerun", !.tgt_code = EXAMPLES[tl]]
                        /\ th' = [th EXCEPT ![UiThread] = Idle]
                   [] b = "clear_tgt" ->
                        /\ ui' = [u0 EXCEPT !.pc = "rerun", !.tgt_code = <<>>]
                        /\ th' = [th EXCEPT ![UiThread] = Idle]
                   [] OTHER ->
                        LET u1 == IF b # "convert" THEN u0
                                  ELSE IF conv = <<>>
                                       THEN [u0 EXCEPT !.shown = {"error"}]
                                       ELSE [u0 EXCEPT !.tgt_code = conv[1]]
                        IN  IF ~ExecEnabled(u1)
                            THEN /\ ui' = [u1 EXCEPT !.pc = "idle", !.shown = @ \cup {"info"}]
                                 /\ th' = [th EXCEPT ![UiThread] = Idle]
                            ELSE IF b \in {"run_src", "run_both"}
                            THEN /\ Invoke(UiThread, sl, u1.src_code, t)
                                 /\ ui' = [u1 EXCEPT !.pc = "src"]
                            ELSE TgtPart(u1)
    /\ UNCHANGED fs

\* r1 is back: show_result, then the target part
UiSrcDone ==
    /\ ui.pc = "src"
    /\ th[UiThread].pc = "returned"
    /\ TgtPart([ui EXCEPT !.shown = @ \cup {"r1"}])
    /\ UNCHANGED fs

\* r2 is back: show_result, and the script ends
UiTgtDone ==
    /\ ui.pc = "tgt"
    /\ th[UiThread].pc = "returned"
    /\ ui' = [ui EXCEPT !.pc = "idle", !.shown = @ \cup {"r2"}]
    /\ th' = [th EXCEPT ![UiThread] = Idle]
    /\ UNCHANGED fs

\* run_code raised: nothing in the script catches it, the script run ends
UiRaised ==
    /\ ui.pc \in {"src", "tgt"}
    /\ th[UiThread].pc = "raised"
    /\ ui' = [ui EXCEPT !.pc = "idle", !.shown = @ \cup {"exception"}]
    /\ th' = [th EXCEPT ![UiThread] = Idle]
    /\ UNCHANGED fs

NextUI == UiRerun \/ UiSrcDone \/ UiTgtDone \/ UiRaised \/ Step(UiThread)

SpecUI == Init /\ [][NextUI]_vars

----------------------------------------------------------------------------
(* One caller under a scheduler that lets time pass and lets the deadline *)
(* of subprocess.run fire; no subprocess is obliged to exit.              *)

FairSpec ==
    /\ Init
    /\ [][Next]_vars
    /\ WF_vars(Tick(UiThread))
    /\ WF_vars(Timeout(UiThread))

----------------------------------------------------------------------------
(* Properties *)

Res(i) == th[i].result[1]

\* C1: for every language and every ordinary failure mode (missing toolchain,
\* compile error, non-zero exit, run-phase timeout) the runner returns a
\* result and lets no exception propagate to the caller.
C1_NeverRaises == \A i \in Threads : th[i].pc # "raised"

\* C2: whenever the run phase exceeds the caller's timeout, in any of the
\* three languages, the call ends in a result with ok = false, empty stdout,
\* stderr "Timeout", time_s = timeout_s and compile_time_s = the compile
\* duration measured before the run.
C2_TimeoutResult ==
    \A i \in Threads :
        Ended(i) /\ "timeout" \in th[i].did =>
            /\ th[i].pc = "returned"
            /\ Res(i) = Result(FALSE, <<>>, <<"Timeout">>, th[i].timeout_s, th[i].ct)

\* C3: the temporary directories that exist are exactly those of the calls
\* that are inside their with block, one directory per call: whatever way a
\* call ended (return, compile failure, timeout, exception), its directory
\* is gone, and no sequence of calls leaves one behind.
C3_TempDirsRemoved ==
    /\ DOMAIN fs = {th[i].td : i \in {j \in Threads : InWith(j)}}
    /\ \A i, j \in Threads : i # j /\ InWith(i) /\ InWith(j) => th[i].td # th[j].td
    /\ \A i \in Threads : ~InWith(i) => th[i].td = NoDir

C3_Witness ==
    /\ fs = <<>>
    /\ th["script"].pc = "raised" /\ "mkdtemp" \in th["script"].did
    /\ th["other"].pc = "returned" /\ "timeout" \in th["other"].did

\* C4: for C++ and Java, when the compiler exits non-zero the run phase is
\* never started and the result is ok = false, the compiler's stdout and
\* stderr, time_s = 0 and compile_time_s = the measured compile duration.
C4_CompileFailure ==
    \A i \in Threads :
        /\ th[i].comp # <<>> /\ th[i].comp[1].returncode # 0 =>
              /\ th[i].pc = "returned"
              /\ "run" \notin th[i].did /\ th[i].run = <<>>
              /\ Res(i) = Result(FALSE, th[i].comp[1].stdout, th[i].comp[1].stderr,
                                 0, th[i].ct)
        /\ th[i].pc = "run" /\ th[i].lang # "Python" =>
              th[i].comp # <<>> /\ th[i].comp[1].returncode = 0

C4_Witness ==
    \E i \in Threads :
        /\ th[i].pc = "returned" /\ th[i].lang = "Java"
        /\ th[i].comp # <<>> /\ th[i].comp[1].returncode = 1
        /\ Res(i).compile_time_s = 2 /\ Res(i).stdout = Stdout("javac", th[i].code)

\* the tools the claim names for each language
C5_Tools(lang) ==
    IF lang = "C++" THEN {"g++"} ELSE IF lang = "Java" THEN {"javac", "java"} ELSE {}

\* C5: when g++ (C++), or javac or java (Java), is not resolvable on PATH the
\* runner returns ok = false, empty stdout, a stderr naming the missing
\* tool, time_s = 0 and compile_time_s = 0, having created no directory,
\* written no file and started no subprocess; it goes on only when every
\* tool resolves.
C5_MissingToolchain ==
    \A i \in Threads :
        /\ C5_Tools(th[i].lang) \cap th[i].absent # {} =>
              /\ th[i].pc = "returned"
              /\ Res(i) = Result(FALSE, <<>>,
                                 IF th[i].lang = "C++" THEN <<"g++ not found on PATH.">>
                                 ELSE <<"javac/java not found on PATH.">>, 0, 0)
              /\ th[i].did = {} /\ th[i].comp = <<>> /\ th[i].run = <<>>
              /\ fs = <<>>
        /\ th[i].pc \in {"enter", "compile", "run"} => C5_Tools(th[i].lang) \cap th[i].absent = {}

C5_Witness ==
    \E i \in Threads :
        th[i].pc = "returned" /\ th[i].lang = "Java" /\ th[i].absent = {"java"}

\* C6: a result has ok = true exactly when the run phase was reached and the
\* process it executed exited with status zero; the results of the
\* toolchain-missing, compile-failure, timeout and unsupported-language
\* paths have ok = false.
C6_OkIffRunExitZero ==
    \A i \in Threads :
        th[i].pc = "returned" =>
            (Res(i).ok <=> ("run" \in th[i].did /\ th[i].run # <<>>
                              /\ th[i].run[1].returncode = 0))

C6_Witness ==
    \E i \in Threads :
        th[i].pc = "returned" /\ Res(i).ok /\ th[i].lang = "C++" /\ th[i].run[1].returncode = 0

\* the public-class pattern matches with its first character at i and its
\* group is code[k .. e]
C7_Match(code, i, k, e) ==
    \E j \in i + 2 .. Len(code) :
        /\ code[i] = "public"
        /\ code[j] = "class"
        /\ \A x \in i + 1 .. j - 1 : code[x] \in SpaceToks
        /\ j + 2 <= k /\ k <= e /\ e <= Len(code)
        /\ \A x \in j + 1 .. k - 1 : code[x] \in SpaceToks
        /\ code[k] \in IdentToks
        /\ \A x \in k + 1 .. e : code[x] \in WordToks
        /\ e < Len(code) => code[e + 1] \notin WordToks

C7_Expected(code, name) ==
    LET n == Len(code)
        starts == {i \in 1 .. n :
                      /\ code[i] = "public"
                      /\ \E k \in i + 4 .. n :
                            code[k] \in IdentToks /\ \E e \in k .. n : C7_Match(code, i, k, e)}
    IN  IF starts = {} THEN name = <<"Main">>
        ELSE \E i \in starts :
                /\ \A x \in starts : i <= x
                /\ \E k \in i + 4 .. n :
                      code[k] \in IdentToks
                      /\ \E e \in k .. n : C7_Match(code, i, k, e) /\ name = SubSeq(code, k, e)

\* C7: in run_java the class name is the identifier captured by the first
\* match of the public-class pattern, or Main when nothing matches; the file
\* written and passed to javac is <name>.java and the entry point passed to
\* java is the same name.
C7_JavaClassName ==
    \A i \in Threads :
        th[i].lang = "Java" /\ th[i].pc \in {"enter", "compile", "run"} =>
            /\ C7_Expected(th[i].code, th[i].cname)
            /\ InWith(i) => HasFile(fs, th[i].td, th[i].cname \o <<".java">>)
            /\ th[i].pc = "compile" =>
                  th[i].compArgv = <<"javac", <<th[i].td, th[i].cname \o <<".java">>>>>>
            /\ th[i].pc = "run" =>
                  /\ th[i].runArgv = <<"java", "-cp", th[i].td, th[i].cname>>
                  /\ th[i].compArgv[2] = <<th[i].td, th[i].runArgv[4] \o <<".java">>>>

C7_Witness ==
    \E i \in Threads :
        /\ th[i].pc = "run" /\ th[i].lang = "Java"
        /\ Len(th[i].code) > 6 /\ th[i].code[1] = " "
        /\ th[i].cname = <<"_", "9", "Bar">>
        /\ th[i].runArgv[4] = th[i].cname

\* C8: the compile subprocess has no deadline: the compile phase is left only
\* when the compiler exits, however long that takes, so a compiler that never
\* exits blocks the call; the run phase never lasts longer than timeout_s and,
\* once started, ends even if the program never exits.
C8_TimeoutBoundsRunOnly ==
    /\ [][\A i \in Threads :
            th[i].pc = "compile" /\ th'[i].pc # "compile" => th'[i].comp # <<>>]_vars
    /\ [](\A i \in Threads : th[i].pc = "run" => th[i].el <= th[i].timeout_s)
    /\ \A i \in Threads : (th[i].pc = "run") ~> Ended(i)

C8_Witness ==
    \E i \in Threads : th[i].pc = "compile" /\ th[i].el > th[i].timeout_s

\* C9: invocations are isolated: calls inside their with block own different
\* directories, each holding what that call wrote, and every subprocess
\* output and every result of a call is the one its own source and its own
\* subprocess exit codes give, whatever the other calls do or did.
C9_Isolated ==
    /\ \A i, j \in Threads : i # j /\ InWith(i) /\ InWith(j) => th[i].td # th[j].td
    /\ \A i \in Threads :
        LET t == th[i] IN
        /\ InWith(i) => /\ ReadFile(fs, t.td, SrcName(t)) = t.code
                        /\ t.pc = "run" => ReadFile(fs, t.td, ExeName(t)) = t.code
        /\ t.comp # <<>> =>
              t.comp[1] = Completed(t.comp[1].returncode,
                                    IF t.lang = "C++" THEN "g++" ELSE "javac", t.code)
        /\ t.run # <<>> =>
              t.run[1] = Completed(t.run[1].returncode,
                                   CASE t.lang = "Python" -> "python"
                                     [] t.lang = "Java" -> "java"
                                     [] OTHER -> "main", t.code)
        /\ t.pc = "returned" /\ t.run # <<>> =>
              /\ Res(i).stdout = t.run[1].stdout /\ Res(i).stderr = t.run[1].stderr
              /\ Res(i).ok = (t.run[1].returncode = 0)
        /\ t.pc = "returned" /\ t.run = <<>> /\ t.comp # <<>> =>
              Res(i).stdout = t.comp[1].stdout /\ Res(i).stderr = t.comp[1].stderr

C9_Witness ==
    /\ InWith("script") /\ InWith("other")
    /\ th["script"].lang = "Java" /\ th["script"].pc = "run"
    /\ th["other"].lang = "Java" /\ th["other"].pc = "compile"
    /\ th["script"].code # th["other"].code

\* C10: in the script run_code is active only when enable_exec is checked and
\* a run button was pressed in that script run; the target is run only when
\* the stored converted code is non-empty (else a warning is shown and no
\* target is run); on Run both the target run starts after the source run
\* is back.
C10_RunOnlyWhenAllowed ==
    /\ th[UiThread].pc # "idle" => ui.pc \in {"src", "tgt"}
    /\ ui.pc \in {"src", "tgt"} =>
          ui.enable_exec /\ ui.button \in {"run_src", "run_tgt", "run_both"}
    /\ ui.pc = "src" =>
          /\ ui.button \in {"run_src", "run_both"}
          /\ th[UiThread].lang = ui.src_lang /\ th[UiThread].code = ui.src_code
          /\ "r1" \notin ui.shown
    /\ ui.pc = "tgt" =>
          /\ ui.button \in {"run_tgt", "run_both"}
          /\ ui.tgt_code # <<>>
          /\ th[UiThread].lang = ui.tgt_lang /\ th[UiThread].code = ui.tgt_code
          /\ ui.button = "run_both" => "r1" \in ui.shown
    /\ "warning" \in ui.shown => ui.tgt_code = <<>> /\ "r2" \notin ui.shown /\ ui.pc = "idle"
    /\ "r1" \in ui.shown \/ "r2" \in ui.shown => ui.enable_exec

C10_Witness ==
    /\ ui.pc = "tgt" /\ ui.button = "run_both" /\ "r1" \in ui.shown
    /\ th[UiThread].pc = "run" /\ th[UiThread].lang = "Java"

====
